---- MODULE Spec2Model ----
(***************************************************************************)
(* A model of forge/components/web/search.py: WebSearchConfiguration and   *)
(* the WebSearchComponent commands get_commands, web_search, google and    *)
(* the helper safe_google_results.                                         *)
(*                                                                         *)
(* A Python str is modelled as a sequence of chunks; each chunk is a TLA+  *)
(* string holding one or more characters, and the str is the concatenation *)
(* of its chunks (Str).  Two chunk values stand for single code points     *)
(* that cannot be written in a TLA+ string: SURR, a lone surrogate (which  *)
(* UTF-8 cannot encode), and EACUTE, a valid non-ASCII character.          *)
(***************************************************************************)
EXTENDS Integers, Sequences, FiniteSets, TLC

\* ------------------------------------------------------------------ bounds
MaxAttempts == 3
MaxResults == 2
MaxItems == 2

\* ------------------------------------------------------- program constants
DefaultMaxAttempts == 3
DefaultNumResults == 8
Forbidden == 403

\* ------------------------------------------------------------ Python strs
SURR == "<U+D800>"
EACUTE == "<U+00E9>"

RECURSIVE Join(_, _)
Join(sep, parts) ==
    IF parts = <<>> THEN <<>>
    ELSE IF Len(parts) = 1 THEN parts[1]
    ELSE parts[1] \o sep \o Join(sep, Tail(parts))

\* needle in hay
Contains(hay, needle) ==
    \E i \in 0..(Len(hay) - Len(needle)) :
        SubSeq(hay, i + 1, i + Len(needle)) = needle

\* s.encode("utf-8", "ignore").decode("utf-8")
EncodeIgnoreDecode(s) == SelectSeq(s, LAMBDA c : c # SURR)

\* the escapes json.dumps (ensure_ascii) applies inside a JSON string
JsonEscapeChar(c) ==
    CASE c = "\"" -> <<"\\", "\"">>
      [] c = "\\" -> <<"\\", "\\">>
      [] c = "\n" -> <<"\\", "n">>
      [] c = EACUTE -> <<"\\", "u00e9">>
      [] OTHER -> <<c>>

RECURSIVE JsonEscape(_)
JsonEscape(s) ==
    IF s = <<>> THEN <<>> ELSE JsonEscapeChar(Head(s)) \o JsonEscape(Tail(s))

JsonString(s) == <<"\"">> \o JsonEscape(s) \o <<"\"">>

\* json.dumps of a list of strs
json_dumps(list) ==
    <<"[">> \o Join(<<", ">>, [i \in 1..Len(list) |-> JsonString(list[i])]) \o <<"]">>

\* ---------------------------------------------------------- configuration
NoneSecret == [isNone |-> TRUE, value |-> <<>>]
Secret(v) == [isNone |-> FALSE, value |-> v]
SecretValues == {NoneSecret, Secret(<<>>), Secret(<<"k">>)}

\* bool(Optional[SecretStr]): None and the empty secret are falsy
SecretTruthy(s) == ~s.isNone /\ Len(s.value) > 0

AttemptValues == (-1..MaxAttempts) \cup {DefaultMaxAttempts}

WebSearchConfiguration ==
    [google_api_key : SecretValues,
     google_custom_search_engine_id : SecretValues,
     duckduckgo_max_attempts : AttemptValues]

\* ------------------------------------------------------- provider answers
Queries == {<<>>, <<"q">>}
NumResultsValues == {1, DefaultNumResults}

RawResults ==
    {[title |-> t, href |-> <<"u1">>, hasBody |-> b[1], body |-> b[2]] :
        t \in {<<"A">>, <<"B">>},
        b \in {<<FALSE, <<>>>>, <<TRUE, <<>>>>, <<TRUE, <<"b1">>>>, <<TRUE, <<SURR>>>>}}

SeqsUpTo(S, n) == UNION {[1..k -> S] : k \in 0..n}

Min(a, b) == IF a < b THEN a ELSE b

\* what DDGS().text(query, max_results=num_results) can return
ProviderResponses(n) == SeqsUpTo(RawResults, Min(n, MaxResults))

\* ------------------------------------------------------------- web_search
\* r.get("body") is truthy
BodyTruthy(r) == r.hasBody /\ r.body # <<>>

NormalizeResult(r) ==
    [title |-> r.title,
     url |-> r.href,
     hasExerpt |-> BodyTruthy(r),
     exerpt |-> IF BodyTruthy(r) THEN r.body ELSE <<>>]

\* a faulty variant: the N/A fallback is forgotten
ExcerptText_NoFallback(r) == <<"\"">> \o r.exerpt \o <<"\"">>

ExcerptText(r) ==
    IF r.hasExerpt /\ r.exerpt # <<>>
    THEN <<"\"">> \o r.exerpt \o <<"\"">>
    ELSE <<"N/A">>

RenderBlock(r) ==
    <<"### \"">> \o r.title \o <<"\"", "\n">>
    \o <<"**URL:** ">> \o r.url \o <<"  ", "\n">>
    \o <<"**Excerpt:** ">> \o ExcerptText(r)

BlockSeparator == <<"\n", "\n">>

\* a faulty variant: a blank line after the header
ResultsHeader_BlankLine == <<"## Search results", "\n", "\n">>

ResultsHeader == <<"## Search results", "\n">>

RenderResults(results) ==
    ResultsHeader
    \o Join(BlockSeparator, [i \in 1..Len(results) |-> RenderBlock(results[i])])

safe_google_results_str(results) == EncodeIgnoreDecode(results)

safe_google_results_list(results) ==
    json_dumps([i \in 1..Len(results) |-> EncodeIgnoreDecode(results[i])])

\* lines 100-115: normalise, render, sanitise
RenderSearch(raw) ==
    safe_google_results_str(
        RenderResults([i \in 1..Len(raw) |-> NormalizeResult(raw[i])]))

\* ------------------------------------------------------------------ state
VARIABLES config, pc, cmd, query, num_results, search_results, attempts,
          responses, calls, delays, ret, exc, commands, api_calls, api_outcome

vars == <<config, pc, cmd, query, num_results, search_results, attempts,
          responses, calls, delays, ret, exc, commands, api_calls, api_outcome>>

NoPayload ==
    [json |-> FALSE, hasError |-> FALSE, hasCode |-> FALSE, code |-> 0,
     hasMessage |-> FALSE, message |-> <<>>]
NoExc == [type |-> "none", payload |-> NoPayload]
NoResponse == [hasItems |-> FALSE, items |-> <<>>]
NoOutcome == [kind |-> "none", response |-> NoResponse, payload |-> NoPayload]

Init ==
    /\ config \in WebSearchConfiguration
    /\ pc = "idle"
    /\ cmd = "none"
    /\ query = <<>>
    /\ num_results = DefaultNumResults
    /\ search_results = <<>>
    /\ attempts = 0
    /\ responses = <<>>
    /\ calls = 0
    /\ delays = 0
    /\ ret = <<>>
    /\ exc = NoExc
    /\ commands = <<>>
    /\ api_calls = 0
    /\ api_outcome = NoOutcome

\* ----------------------------------------------------------- get_commands
\* a faulty variant: one credential is enough
GoogleEnabled_Either ==
    SecretTruthy(config.google_api_key)
    \/ SecretTruthy(config.google_custom_search_engine_id)

GoogleEnabled ==
    SecretTruthy(config.google_api_key)
    /\ SecretTruthy(config.google_custom_search_engine_id)

get_commands ==
    /\ pc = "idle"
    /\ commands' = <<"web_search">> \o (IF GoogleEnabled THEN <<"google">> ELSE <<>>)
    /\ cmd' = "get_commands"
    /\ pc' = "done"
    /\ UNCHANGED <<config, query, num_results, search_results, attempts,
                   responses, calls, delays, ret, exc, api_calls, api_outcome>>

\* ------------------------------------------------------------- web_search
\* the call: lines 85-86
web_search ==
    /\ pc = "idle"
    /\ \E q \in Queries, n \in NumResultsValues :
        /\ query' = q
        /\ num_results' = n
    /\ search_results' = <<>>
    /\ attempts' = 0
    /\ responses' = <<>>
    /\ calls' = 0
    /\ delays' = 0
    /\ cmd' = "web_search"
    /\ pc' = "ws_loop"
    /\ UNCHANGED <<config, ret, exc, commands, api_calls, api_outcome>>

LoopCondition == attempts < config.duckduckgo_max_attempts

\* line 88 false: leave the loop
WsLoopExit ==
    /\ pc = "ws_loop"
    /\ ~LoopCondition
    /\ pc' = "ws_render"
    /\ UNCHANGED <<config, cmd, query, num_results, search_results, attempts,
                   responses, calls, delays, ret, exc, commands, api_calls, api_outcome>>

\* lines 89-90: empty query
WsEmptyQuery ==
    /\ pc = "ws_loop"
    /\ LoopCondition
    /\ query = <<>>
    /\ ret' = json_dumps(search_results)
    /\ pc' = "done"
    /\ UNCHANGED <<config, cmd, query, num_results, search_results, attempts,
                   responses, calls, delays, exc, commands, api_calls, api_outcome>>

\* lines 92-95: one provider call that returns a list
WsAttempt ==
    /\ pc = "ws_loop"
    /\ LoopCondition
    /\ query # <<>>
    /\ \E r \in ProviderResponses(num_results) :
        /\ search_results' = r
        /\ responses' = Append(responses, r)
        /\ calls' = calls + 1
        /\ pc' = IF r # <<>> THEN "ws_render" ELSE "ws_sleep"
    /\ UNCHANGED <<config, cmd, query, num_results, attempts, delays, ret, exc,
                   commands, api_calls, api_outcome>>

\* line 92: the provider call raises
WsProviderRaises ==
    /\ pc = "ws_loop"
    /\ LoopCondition
    /\ query # <<>>
    /\ calls' = calls + 1
    /\ exc' = [type |-> "ProviderError", payload |-> NoPayload]
    /\ pc' = "done"
    /\ UNCHANGED <<config, cmd, query, num_results, search_results, attempts,
                   responses, delays, ret, commands, api_calls, api_outcome>>

\* a faulty variant: no delay after the last attempt
WsSleep_SkipsFinalDelay ==
    /\ pc = "ws_sleep"
    /\ delays' = IF attempts + 1 < config.duckduckgo_max_attempts
                 THEN delays + 1 ELSE delays
    /\ attempts' = attempts + 1
    /\ pc' = "ws_loop"
    /\ UNCHANGED <<config, cmd, query, num_results, search_results, responses,
                   calls, ret, exc, commands, api_calls, api_outcome>>

\* lines 97-98
WsSleep ==
    /\ pc = "ws_sleep"
    /\ delays' = delays + 1
    /\ attempts' = attempts + 1
    /\ pc' = "ws_loop"
    /\ UNCHANGED <<config, cmd, query, num_results, search_results, responses,
                   calls, ret, exc, commands, api_calls, api_outcome>>

\* lines 100-115: search_results is rebound to the normalised list
WsRender ==
    /\ pc = "ws_render"
    /\ search_results' =
          [i \in 1..Len(search_results) |-> NormalizeResult(search_results[i])]
    /\ ret' = RenderSearch(search_results)
    /\ pc' = "done"
    /\ UNCHANGED <<config, cmd, query, num_results, attempts, responses, calls,
                   delays, exc, commands, api_calls, api_outcome>>

\* the caller takes the outcome; the component is ready for the next command
Return ==
    /\ pc = "done"
    /\ pc' = "idle"
    /\ cmd' = "none"
    /\ query' = <<>>
    /\ num_results' = DefaultNumResults
    /\ search_results' = <<>>
    /\ attempts' = 0
    /\ responses' = <<>>
    /\ calls' = 0
    /\ delays' = 0
    /\ ret' = <<>>
    /\ exc' = NoExc
    /\ commands' = <<>>
    /\ api_calls' = 0
    /\ api_outcome' = NoOutcome
    /\ UNCHANGED config

\* ----------------------------------------------------------------- google
InvalidApiKey == <<"invalid", " ", "API", " ", "key">>

ErrorMessages ==
    {<<>>,
     InvalidApiKey,
     <<"Request", " ", "had", " ">> \o InvalidApiKey \o <<".">>,
     <<"Invalid", " ", "API", " ", "key">>,
     <<"invalid", " ", "key">>,
     <<"API", " ", "key", " ", "invalid">>,
     <<"Forbidden">>}

\* the body of an HttpError: not JSON, JSON without "error", or
\* {"error": {"code"?: c, "message"?: m}}
ErrorPayloads ==
    {NoPayload,
     [json |-> TRUE, hasError |-> FALSE, hasCode |-> FALSE, code |-> 0,
      hasMessage |-> FALSE, message |-> <<>>]}
    \cup {[json |-> TRUE, hasError |-> TRUE, hasCode |-> TRUE, code |-> c,
           hasMessage |-> TRUE, message |-> m] :
              c \in {400, Forbidden, 500}, m \in ErrorMessages}
    \cup {[json |-> TRUE, hasError |-> TRUE, hasCode |-> FALSE, code |-> 0,
           hasMessage |-> TRUE, message |-> m] : m \in ErrorMessages}
    \cup {[json |-> TRUE, hasError |-> TRUE, hasCode |-> TRUE, code |-> c,
           hasMessage |-> FALSE, message |-> <<>>] : c \in {400, Forbidden, 500}}

Links == {<<"u1">>, <<"u", SURR, "2">>, <<"q", "\"", "\\">>, <<EACUTE>>}

Items == [link : Links, title : {<<"T">>}]

\* what service.cse().list(...).execute() can return
ApiResponses(n) ==
    {NoResponse}
    \cup {[hasItems |-> TRUE, items |-> l] : l \in SeqsUpTo(Items, Min(n, MaxItems))}

\* a faulty variant: the wrong field of each item
SearchResultsLinks_Titles(result) ==
    LET items == IF result.hasItems THEN result.items ELSE <<>>
    IN  [i \in 1..Len(items) |-> items[i].title]

\* lines 173-176
SearchResultsLinks(result) ==
    LET items == IF result.hasItems THEN result.items ELSE <<>>
    IN  [i \in 1..Len(items) |-> items[i].link]

\* error_details.get("error", {}).get("code") == 403
ErrorCodeIsForbidden(p) == p.hasError /\ p.hasCode /\ p.code = Forbidden

\* error_details.get("error", {}).get("message", "")
ErrorMessage(p) == IF p.hasError /\ p.hasMessage THEN p.message ELSE <<>>

\* lines 178-191: the exception that leaves the except block
HandleHttpError(p) ==
    IF ~p.json
    THEN [type |-> "JSONDecodeError", payload |-> NoPayload]
    ELSE IF ErrorCodeIsForbidden(p) /\ Contains(ErrorMessage(p), InvalidApiKey)
    THEN [type |-> "ConfigurationError", payload |-> NoPayload]
    ELSE [type |-> "HttpError", payload |-> p]

\* the call, up to the assertions of lines 151-152
google ==
    /\ pc = "idle"
    /\ \E q \in Queries, n \in NumResultsValues :
        /\ query' = q
        /\ num_results' = n
    /\ cmd' = "google"
    /\ IF GoogleEnabled
       THEN /\ pc' = "g_execute"
            /\ exc' = exc
       ELSE /\ pc' = "done"
            /\ exc' = [type |-> "AssertionError", payload |-> NoPayload]
    /\ UNCHANGED <<config, search_results, attempts, responses, calls, delays,
                   ret, commands, api_calls, api_outcome>>

\* lines 155-176 and 195: the query succeeds
GoogleExecuteOk ==
    /\ pc = "g_execute"
    /\ \E result \in ApiResponses(num_results) :
        /\ api_outcome' = [kind |-> "ok", response |-> result, payload |-> NoPayload]
        /\ ret' = safe_google_results_list(SearchResultsLinks(result))
    /\ api_calls' = api_calls + 1
    /\ pc' = "done"
    /\ UNCHANGED <<config, cmd, query, num_results, search_results, attempts,
                   responses, calls, delays, exc, commands>>

\* lines 162-170 raise HttpError, handled by lines 178-191
GoogleExecuteHttpError ==
    /\ pc = "g_execute"
    /\ \E p \in ErrorPayloads :
        /\ api_outcome' = [kind |-> "HttpError", response |-> NoResponse, payload |-> p]
        /\ exc' = HandleHttpError(p)
    /\ api_calls' = api_calls + 1
    /\ pc' = "done"
    /\ UNCHANGED <<config, cmd, query, num_results, search_results, attempts,
                   responses, calls, delays, ret, commands>>

Next ==
    \/ get_commands
    \/ web_search
    \/ WsLoopExit
    \/ WsEmptyQuery
    \/ WsAttempt
    \/ WsProviderRaises
    \/ WsSleep
    \/ WsRender
    \/ google
    \/ GoogleExecuteOk
    \/ GoogleExecuteHttpError
    \/ Return

Spec == Init /\ [][Next]_vars

\* a started command runs to its end: the interpreter keeps executing it
FairSpec ==
    Spec /\ WF_vars(WsLoopExit \/ WsEmptyQuery \/ WsAttempt \/ WsProviderRaises
                    \/ WsSleep \/ WsRender \/ GoogleExecuteOk
                    \/ GoogleExecuteHttpError)

\* ======================================================== checked properties
\* the text a modelled str stands for: its chunks, concatenated
RECURSIVE Str(_)
Str(s) == IF s = <<>> THEN "" ELSE Head(s) \o Str(Tail(s))

WsDone == cmd = "web_search" /\ pc = "done"
WsReturned == WsDone /\ exc = NoExc
MaxRetries == config.duckduckgo_max_attempts
\* what the provider returned last in this call (nothing when it was not asked)
LastResponse == IF responses = <<>> THEN <<>> ELSE responses[Len(responses)]
AllEmpty == \A i \in 1..Len(responses) : responses[i] = <<>>
EmptyAttempts == Cardinality({i \in 1..Len(responses) : responses[i] = <<>>})
ValidText(s) == SelectSeq(s, LAMBDA c : c # SURR)

RECURSIVE SplitLines(_, _)
SplitLines(s, cur) ==
    IF s = <<>> THEN <<cur>>
    ELSE IF Head(s) = "\n" THEN <<cur>> \o SplitLines(Tail(s), <<>>)
    ELSE SplitLines(Tail(s), Append(cur, Head(s)))

ExcerptLines(s) ==
    SelectSeq(SplitLines(s, <<>>), LAMBDA l : l # <<>> /\ l[1] = "**Excerpt:** ")

JsonUnescape(c) ==
    CASE c = "n" -> "\n"
      [] c = "u00e9" -> EACUTE
      [] OTHER -> c

\* a reader of a JSON array of strings: the strings it holds, in order
RECURSIVE JsonParse(_, _, _, _)
JsonParse(s, inStr, cur, acc) ==
    IF s = <<>> THEN acc
    ELSE IF ~inStr
    THEN IF Head(s) = "\""
         THEN JsonParse(Tail(s), TRUE, <<>>, acc)
         ELSE JsonParse(Tail(s), FALSE, cur, acc)
    ELSE IF Head(s) = "\\"
    THEN JsonParse(Tail(Tail(s)), TRUE, Append(cur, JsonUnescape(s[2])), acc)
    ELSE IF Head(s) = "\""
    THEN JsonParse(Tail(s), FALSE, <<>>, Append(acc, cur))
    ELSE JsonParse(Tail(s), TRUE, Append(cur, Head(s)), acc)

JsonLoads(s) == JsonParse(s, FALSE, <<>>, <<>>)

\* C1: for every empty query web_search returns "[]" and makes no provider
\* call and no delay, whatever num_results is.
C1_EmptyQueryReturnsEmptyArray ==
    (WsDone /\ query = <<>>) =>
        /\ exc = NoExc
        /\ Str(ret) = "[]"
        /\ calls = 0
        /\ delays = 0

\* C1, for the configurations whose duckduckgo_max_attempts is at least 1.
EmptyQueryReturnsEmptyArray_PositiveAttempts ==
    (WsDone /\ query = <<>> /\ MaxRetries >= 1) =>
        /\ exc = NoExc
        /\ Str(ret) = "[]"
        /\ calls = 0
        /\ delays = 0

\* C2: for a non-empty query the provider calls stop at the first attempt
\* that yields a result, whose results are rendered: the number of calls is
\* the index of the first non-empty attempt and never exceeds maxRetries.
C2_StopsAtFirstNonEmptyAttempt ==
    (cmd = "web_search" /\ query # <<>>) =>
        /\ calls <= MaxRetries
        /\ \A i \in 1..Len(responses) :
              responses[i] # <<>> => (i = Len(responses) /\ calls = i)
        /\ (WsReturned /\ LastResponse # <<>>) => ret = RenderSearch(LastResponse)

\* C2, for the configurations whose duckduckgo_max_attempts is not negative.
StopsAtFirstNonEmptyAttempt_NonNegativeAttempts ==
    MaxRetries >= 0 => C2_StopsAtFirstNonEmptyAttempt

\* C2, termination: a started web_search ends.
WebSearchTerminates == (pc = "ws_loop") ~> (pc = "done")

\* C3: for a non-empty query, when every attempt returns no result, exactly
\* maxRetries provider calls are made, no exception is raised and the output
\* is the header line with no result block after it.
C3_AllEmptyMakesMaxRetriesCalls ==
    (WsDone /\ query # <<>> /\ calls = Len(responses) /\ AllEmpty) =>
        /\ calls = MaxRetries
        /\ exc = NoExc
        /\ Str(ret) = "## Search results\n"

\* C3, for the configurations whose duckduckgo_max_attempts is not negative.
AllEmptyMakesMaxRetriesCalls_NonNegativeAttempts ==
    MaxRetries >= 0 => C3_AllEmptyMakesMaxRetriesCalls

\* C4 as stated: within one web_search the number of 1-time-unit delays is
\* at most maxRetries - 1 (no delay follows the final attempt).
C4_AtMostMaxRetriesMinusOneDelays ==
    (cmd = "web_search" /\ MaxRetries >= 1) => delays <= MaxRetries - 1

\* C4 as amended: within one web_search a delay follows every attempt that
\* returned no result, the final attempt included, and nothing else: the
\* number of delays is the number of empty-result attempts, at most
\* maxRetries when that is not negative and zero otherwise.
C4_DelayAfterEveryEmptyAttempt ==
    cmd = "web_search" =>
        /\ delays = EmptyAttempts - (IF pc = "ws_sleep" THEN 1 ELSE 0)
        /\ delays = attempts
        /\ delays <= (IF MaxRetries >= 0 THEN MaxRetries ELSE 0)
        /\ query = <<>> => delays = 0

C4_Witness ==
    /\ WsReturned
    /\ MaxRetries = DefaultMaxAttempts
    /\ calls = DefaultMaxAttempts
    /\ AllEmpty
    /\ delays = DefaultMaxAttempts

\* C5: a request error whose payload has code 403 and a message containing
\* "invalid API key" becomes ConfigurationError; every other request error
\* propagates unchanged; exactly one API query is issued either way.
C5_ErrorMapping ==
    (cmd = "google" /\ pc = "done" /\ api_outcome.kind = "HttpError") =>
        LET p == api_outcome.payload
            isInvalidKey ==
                /\ p.json /\ p.hasError /\ p.hasCode /\ p.code = 403
                /\ p.hasMessage /\ Contains(p.message, InvalidApiKey)
        IN  /\ api_calls = 1
            /\ IF isInvalidKey
               THEN exc.type = "ConfigurationError"
               ELSE exc = [type |-> "HttpError", payload |-> p]

\* C5, for the request errors whose body is a JSON object.
ErrorMapping_JsonPayload ==
    api_outcome.payload.json => C5_ErrorMapping

\* C6: get_commands always lists web_search, and lists google if and only if
\* both the API key and the search engine ID are configured and non-empty.
C6_FeatureGating ==
    (cmd = "get_commands" /\ pc = "done") =>
        /\ Len(commands) \in {1, 2}
        /\ commands[1] = "web_search"
        /\ (\E i \in 1..Len(commands) : commands[i] = "google")
              <=> /\ ~config.google_api_key.isNone
                  /\ config.google_api_key.value # <<>>
                  /\ ~config.google_custom_search_engine_id.isNone
                  /\ config.google_custom_search_engine_id.value # <<>>

C6_Witness ==
    /\ cmd = "get_commands"
    /\ pc = "done"
    /\ config.google_api_key = Secret(<<"k">>)
    /\ config.google_custom_search_engine_id = NoneSecret
    /\ commands = <<"web_search">>

ResultA == [title |-> <<"A">>, href |-> <<"u1">>, hasBody |-> TRUE, body |-> <<"b1">>]
ResultB == [title |-> <<"B">>, href |-> <<"u1">>, hasBody |-> FALSE, body |-> <<>>]

\* C7 as stated: the result list [{title:"A", href:"u1", body:"b1"}] renders
\* with a blank line between the header line and the block.
C7_RendersWithBlankLineAfterHeader ==
    (WsReturned /\ LastResponse = <<ResultA>>) =>
        Str(ret) = "## Search results\n\n### \"A\"\n**URL:** u1  \n**Excerpt:** \"b1\""

\* C7 as amended: the result list [{title:"A", href:"u1", body:"b1"}] renders
\* to the header line directly followed by the block, with no blank line
\* between them; blocks come in provider order, separated by a blank line.
C7_RendersHeaderThenBlocks ==
    /\ (WsReturned /\ LastResponse = <<ResultA>>) =>
          Str(ret) = "## Search results\n### \"A\"\n**URL:** u1  \n**Excerpt:** \"b1\""
    /\ (WsReturned /\ LastResponse = <<ResultA, ResultB>>) =>
          Str(ret) = "## Search results\n### \"A\"\n**URL:** u1  \n**Excerpt:** \"b1\""
                     \o "\n\n### \"B\"\n**URL:** u1  \n**Excerpt:** N/A"
    /\ (WsReturned /\ LastResponse = <<ResultB, ResultA>>) =>
          Str(ret) = "## Search results\n### \"B\"\n**URL:** u1  \n**Excerpt:** N/A"
                     \o "\n\n### \"A\"\n**URL:** u1  \n**Excerpt:** \"b1\""

C7_Witness == WsReturned /\ LastResponse = <<ResultA>>

\* C8: every result has one excerpt line, which reads the quoted body text
\* if and only if the provider supplied a non-empty body, and N/A when the
\* body is missing or empty.
C8_ExcerptOrNotAvailable ==
    (WsReturned /\ query # <<>>) =>
        LET lines == ExcerptLines(ret)
        IN  /\ Len(lines) = Len(LastResponse)
            /\ \A i \in 1..Len(LastResponse) :
                  LET r == LastResponse[i]
                  IN  IF r.hasBody /\ r.body # <<>>
                      THEN Str(lines[i])
                           = "**Excerpt:** \"" \o Str(ValidText(r.body)) \o "\""
                      ELSE Str(lines[i]) = "**Excerpt:** N/A"

C8_Witness ==
    /\ WsReturned
    /\ Len(LastResponse) = 2
    /\ LastResponse[1].hasBody /\ LastResponse[1].body = <<>>
    /\ LastResponse[2] = ResultA

\* C9: duckduckgo_max_attempts is at least 1 in every configuration.
C9_MaxRetriesAtLeastOne == config.duckduckgo_max_attempts >= 1

\* C9, second half: no operation changes the configuration.
ConfigurationNeverChanges == [][config' = config]_vars

\* C10: on a successful response google returns the JSON serialisation of
\* the list holding exactly the link of each item, in provider order and
\* sanitised; a response without items gives the empty list.
C10_ReturnsSanitizedLinks ==
    (cmd = "google" /\ pc = "done" /\ api_outcome.kind = "ok") =>
        LET items == IF api_outcome.response.hasItems
                     THEN api_outcome.response.items ELSE <<>>
        IN  /\ exc = NoExc
            /\ api_calls = 1
            /\ Head(ret) = "[" /\ ret[Len(ret)] = "]"
            /\ JsonLoads(ret) = [i \in 1..Len(items) |-> ValidText(items[i].link)]
            /\ items = <<>> => Str(ret) = "[]"
            /\ (Len(items) = 2 /\ items[1].link = <<"u1">>
                /\ items[2].link = <<"q", "\"", "\\">>)
                  => Str(ret) = "[\"u1\", \"q\\\"\\\\\"]"

C10_Witness ==
    /\ cmd = "google"
    /\ pc = "done"
    /\ api_outcome.kind = "ok"
    /\ api_outcome.response.hasItems
    /\ Len(api_outcome.response.items) = 2
    /\ api_outcome.response.items[1].link = <<"u", SURR, "2">>
    /\ api_outcome.response.items[2].link = <<"u1">>
    /\ Str(ret) = "[\"u2\", \"u1\"]"
====
